---- MODULE Spec2Model ----
(***************************************************************************)
(* Model of apps/desktop/src-tauri/icons/create_icons.py: the PNG encoder  *)
(* create_png(size, filename) and the module-level driver loop over the    *)
(* four (size, filename) pairs.                                            *)
(*                                                                         *)
(* Spec is the script as written; its rasters (32 to 512 pixels wide) are   *)
(* too large to enumerate, so Spec carries the raster, the compressed      *)
(* stream and the data chunk as one opaque element and keeps the           *)
(* signature, the header chunk and the end chunk byte-exact.  SpecEnc is   *)
(* one call of create_png with a small size, every byte of the file        *)
(* computed as the code computes it, zlib's level-9 output included.       *)
(*                                                                         *)
(* Bytes are integers 0..255 and byte strings are sequences of bytes.      *)
(* 32-bit words (CRC-32, Adler-32) are kept as four bytes, big-endian,     *)
(* because they exceed the integer range of the model checker.             *)
(***************************************************************************)
EXTENDS Integers, Sequences, FiniteSets, TLC

(***************************************************************************)
(* Bounds of the model (not program constants).                            *)
(***************************************************************************)
\* sizes 1..MaxSize are encoded byte-exactly by SpecEnc
MaxSize == 3
\* sizes -NegSizes..0 are the out-of-range arguments tried by SpecEnc
NegSizes == 2

(***************************************************************************)
(* Byte and bit helpers.                                                   *)
(***************************************************************************)
Byte == 0..255

Min(a, b) == IF a <= b THEN a ELSE b

\* exclusive or of two naturals (Python's ^ on the bytes involved)
RECURSIVE BitXor(_, _)
BitXor(a, b) ==
    IF a = 0 THEN b
    ELSE IF b = 0 THEN a
    ELSE ((a + b) % 2) + 2 * BitXor(a \div 2, b \div 2)

\* the largest and the smallest element of a non-empty finite set of integers
SetMax(S) == CHOOSE m \in S : \A n \in S : n <= m
SetMin(S) == CHOOSE m \in S : \A n \in S : m <= n

(***************************************************************************)
(* struct.pack.  '>I' packs an unsigned 32-bit integer big-endian and      *)
(* raises struct.error outside 0..2^32-1; 'B' packs one byte.  Integers of *)
(* the model stay below 2^31, so the only failing arguments are negative.  *)
(***************************************************************************)
PackableU32(v) == v >= 0

PackU32(v) ==
    << (v \div 16777216) % 256, (v \div 65536) % 256, (v \div 256) % 256, v % 256 >>

\* the inverse reading of four big-endian bytes (used by decoders)
UnpackU32(s) == ((s[1] * 256 + s[2]) * 256 + s[3]) * 256 + s[4]

(***************************************************************************)
(* zlib.crc32: CRC-32 (reflected polynomial EDB88320, initial value and    *)
(* final xor FFFFFFFF), on words held as four big-endian bytes.            *)
(***************************************************************************)
CrcPoly == << 237, 184, 131, 32 >>

WordXor(u, v) == [i \in 1..4 |-> BitXor(u[i], v[i])]

\* logical shift right by one bit of a 4-byte word
WordShr1(u) ==
    << u[1] \div 2,
       (u[1] % 2) * 128 + u[2] \div 2,
       (u[2] % 2) * 128 + u[3] \div 2,
       (u[3] % 2) * 128 + u[4] \div 2 >>

RECURSIVE CrcBits(_, _)
CrcBits(c, k) ==
    IF k = 0 THEN c
    ELSE CrcBits(IF c[4] % 2 = 1 THEN WordXor(WordShr1(c), CrcPoly) ELSE WordShr1(c), k - 1)

\* the byte-wise table: entry b is b shifted out through the polynomial
CrcTable == [b \in Byte |-> CrcBits(<< 0, 0, 0, b >>, 8)]

\* crc = table[(crc ^ byte) & 0xff] ^ (crc >> 8)
CrcByte(c, b) == WordXor(CrcTable[BitXor(c[4], b)], << 0, c[1], c[2], c[3] >>)

\* the bytes s[lo..hi] fed in order.  The range is halved, and the left half
\* evaluated before the right half is entered, only to keep the evaluation
\* shallow: the bytes are still consumed left to right.
RECURSIVE CrcUpdate(_, _, _, _)
CrcUpdate(c, s, lo, hi) ==
    IF lo > hi THEN c
    ELSE IF lo = hi THEN CrcByte(c, s[lo])
    ELSE LET mid == (lo + hi) \div 2
             left == CrcUpdate(c, s, lo, mid)
         IN  IF Len(left) = 4 THEN CrcUpdate(left, s, mid + 1, hi) ELSE left

\* zlib.crc32(s) & 0xffffffff, already packed as struct.pack('>I', ...)
Crc32(s) ==
    WordXor(CrcUpdate(<< 255, 255, 255, 255 >>, s, 1, Len(s)), << 255, 255, 255, 255 >>)

(***************************************************************************)
(* Adler-32, the trailer of a zlib stream.                                 *)
(***************************************************************************)
AdlerBase == 65521

\* one byte: a += byte; b += a (both modulo AdlerBase)
AdlerByte(ab, byte) ==
    << (ab[1] + byte) % AdlerBase, (ab[2] + ((ab[1] + byte) % AdlerBase)) % AdlerBase >>

\* the bytes s[lo..hi] fed in order (halved like CrcUpdate)
RECURSIVE AdlerUpdate(_, _, _, _)
AdlerUpdate(ab, s, lo, hi) ==
    IF lo > hi THEN ab
    ELSE IF lo = hi THEN AdlerByte(ab, s[lo])
    ELSE LET mid == (lo + hi) \div 2
             left == AdlerUpdate(ab, s, lo, mid)
         IN  IF Len(left) = 2 THEN AdlerUpdate(left, s, mid + 1, hi) ELSE left

\* (b << 16) | a as four big-endian bytes
Adler32(s) ==
    LET ab == AdlerUpdate(<< 1, 0 >>, s, 1, Len(s))
    IN  << ab[2] \div 256, ab[2] % 256, ab[1] \div 256, ab[1] % 256 >>

(***************************************************************************)
(* zlib.compress(data, 9): a zlib stream (2-byte header, DEFLATE body,     *)
(* Adler-32 trailer) produced by deflate with level 9, memLevel 8 and the  *)
(* default strategy: deflate_slow (lazy matching) with good_length 32,     *)
(* max_lazy 258, nice_length 258, max_chain 4096, and _tr_flush_block      *)
(* choosing for each block the shortest of stored, static and dynamic      *)
(* trees.                                                                  *)
(*                                                                         *)
(* Positions are absolute 0-based offsets into the input, so byte p of w   *)
(* is w[p + 1].  zlib's window slides by 32768 bytes on long inputs; all   *)
(* the entries a slide drops lie further back than MAX_DIST, so absolute   *)
(* positions give the same matches.                                        *)
(***************************************************************************)
MIN_MATCH == 3
MAX_MATCH == 258
\* w_size - MIN_LOOKAHEAD = 32768 - (258 + 3 + 1)
MAX_DIST == 32506
TOO_FAR == 4096
\* configuration_table[9]
GoodLength == 32
MaxLazy == 258
NiceLength == 258
MaxChain == 4096

Lit(b) == << "L", b >>
Match(len, dist) == << "M", len, dist >>

\* length of the common prefix of the strings at q and p (q < p), at most cap
\* and never past the end of the input
CommonLen(w, q, p, cap) ==
    LET lim == Min(cap, Len(w) - p)
        diff == { i \in 0..(lim - 1) : w[q + 1 + i] # w[p + 1 + i] }
    IN  IF diff = {} THEN (IF lim < 0 THEN 0 ELSE lim) ELSE SetMin(diff)

\* UPDATE_HASH over the MIN_MATCH bytes at p with hash_bits 15 and hash_shift
\* 5: ((c1 << 10) ^ (c2 << 5) ^ c3) & 0x7fff
Hash(w, p) == BitXor(BitXor((w[p + 1] % 32) * 1024, w[p + 2] * 32), w[p + 3])

\* INSERT_STRING's hash_head: the most recent earlier position with the hash
\* of strstart, NIL (= 0) when there is none.  Position 0 is indistinguishable
\* from NIL.
HashHead(w, strstart) ==
    LET ins_h == Hash(w, strstart)
        same == { q \in 1..(strstart - 1) : Hash(w, q) = ins_h }
    IN  IF same = {} THEN 0 ELSE SetMax(same)

\* longest_match: cur_match is tried, then the hash chain is followed towards
\* older positions while they stay above limit (distance below MAX_DIST) and
\* chain_length lasts; a candidate replaces the best so far only when strictly
\* longer, and the walk stops at the first candidate of nice_match bytes.  So
\* the candidates seen are those from cur_match down to the first nice one,
\* and the result is the most recent of the longest among them, when longer
\* than prev_length.  The result is clipped to the lookahead.  (The code also
\* compares bytes past the lookahead; a match can gain from them only when it
\* already reaches the end of the input, where the clipping undoes the gain.)
LongestMatch(w, strstart, cur_match, prev_length, prev_match) ==
    LET lookahead == Len(w) - strstart
        nice_match == Min(NiceLength, lookahead)
        chain_length == IF prev_length >= GoodLength THEN MaxChain \div 4 ELSE MaxChain
        limit == IF strstart > MAX_DIST THEN strstart - MAX_DIST ELSE 0
        ins_h == Hash(w, strstart)
        chain == { cur_match } \cup { q \in (limit + 1)..(cur_match - 1) : Hash(w, q) = ins_h }
        walked == IF Cardinality(chain) <= chain_length THEN chain
                  ELSE { q \in chain : Cardinality({ r \in chain : r > q }) < chain_length }
        len(q) == CommonLen(w, q, strstart, MAX_MATCH)
        nice == { q \in walked : len(q) >= nice_match }
        seen == IF nice = {} THEN walked ELSE { q \in walked : q >= SetMax(nice) }
        best_len == SetMax({ len(q) : q \in seen } \cup { prev_length })
    IN  IF best_len > prev_length
        THEN << Min(best_len, lookahead), SetMax({ q \in seen : len(q) = best_len }) >>
        ELSE << Min(prev_length, lookahead), prev_match >>

\* deflate_slow: the LZ77 symbols of the input w from strstart on.
\* DeflateSlow looks for the match at strstart; DeflateSlowStep, given that
\* match (found: its length and start), sends the previous match, or the
\* previous byte as a literal, or nothing, and moves on.
RECURSIVE DeflateSlow(_, _, _, _, _)
DeflateSlowStep(w, strstart, prev_length, prev_match, match_available, found) ==
    LET len == IF found[1] = MIN_MATCH /\ strstart - found[2] > TOO_FAR
               THEN MIN_MATCH - 1 ELSE found[1]
    IN  IF prev_length >= MIN_MATCH /\ len <= prev_length
        THEN << Match(prev_length, strstart - 1 - prev_match) >>
             \o DeflateSlow(w, strstart - 1 + prev_length, MIN_MATCH - 1, found[2], FALSE)
        ELSE IF match_available
        THEN << Lit(w[strstart]) >> \o DeflateSlow(w, strstart + 1, len, found[2], TRUE)
        ELSE DeflateSlow(w, strstart + 1, len, found[2], TRUE)

DeflateSlow(w, strstart, match_length, match_start, match_available) ==
    LET lookahead == Len(w) - strstart
        hash_head == IF lookahead >= MIN_MATCH THEN HashHead(w, strstart) ELSE 0
        prev_length == match_length
        prev_match == match_start
    IN  IF lookahead = 0
        THEN IF match_available THEN << Lit(w[strstart]) >> ELSE << >>
        ELSE DeflateSlowStep(w, strstart, prev_length, prev_match, match_available,
                 IF hash_head # 0 /\ prev_length < MaxLazy /\ strstart - hash_head <= MAX_DIST
                 THEN LongestMatch(w, strstart, hash_head, prev_length, prev_match)
                 ELSE << MIN_MATCH - 1, prev_match >>)

Lz77(w) == DeflateSlow(w, 0, MIN_MATCH - 1, 0, FALSE)

(***************************************************************************)
(* The code tables of DEFLATE (RFC 1951, 3.2.5 and 3.2.6; trees.c).  A bit *)
(* string is a sequence of 0/1 in the order the bits enter the stream.     *)
(***************************************************************************)
LengthBase ==
    << 3, 4, 5, 6, 7, 8, 9, 10, 11, 13, 15, 17, 19, 23, 27, 31, 35, 43, 51, 59,
       67, 83, 99, 115, 131, 163, 195, 227, 258 >>
LengthExtra ==
    << 0, 0, 0, 0, 0, 0, 0, 0, 1, 1, 1, 1, 2, 2, 2, 2, 3, 3, 3, 3,
       4, 4, 4, 4, 5, 5, 5, 5, 0 >>
DistBase ==
    << 1, 2, 3, 4, 5, 7, 9, 13, 17, 25, 33, 49, 65, 97, 129, 193, 257, 385, 513,
       769, 1025, 1537, 2049, 3073, 4097, 6145, 8193, 12289, 16385, 24577 >>
DistExtra ==
    << 0, 0, 0, 0, 1, 1, 2, 2, 3, 3, 4, 4, 5, 5, 6, 6, 7, 7, 8, 8,
       9, 9, 10, 10, 11, 11, 12, 12, 13, 13 >>

\* the index of the last entry of the increasing table that is <= v
RECURSIVE CodeIndex(_, _, _)
CodeIndex(base, v, i) ==
    IF i < Len(base) /\ base[i + 1] <= v THEN CodeIndex(base, v, i + 1) ELSE i

\* the n low bits of v, least significant first (send_bits) ...
RECURSIVE BitsLsb(_, _)
BitsLsb(v, n) == IF n = 0 THEN << >> ELSE << v % 2 >> \o BitsLsb(v \div 2, n - 1)

\* ... and most significant first (Huffman codes are stored bit-reversed)
RECURSIVE BitsMsb(_, _)
BitsMsb(v, n) == IF n = 0 THEN << >> ELSE BitsMsb(v \div 2, n - 1) \o << v % 2 >>

\* the sum of f[lo..hi]
RECURSIVE SumRange(_, _, _)
SumRange(f, lo, hi) ==
    IF lo > hi THEN 0
    ELSE IF lo = hi THEN f[lo]
    ELSE SumRange(f, lo, (lo + hi) \div 2) + SumRange(f, (lo + hi) \div 2 + 1, hi)

\* the concatenation of the bit strings f[lo..hi]
RECURSIVE ConcatRange(_, _, _)
ConcatRange(f, lo, hi) ==
    IF lo > hi THEN << >>
    ELSE IF lo = hi THEN f[lo]
    ELSE ConcatRange(f, lo, (lo + hi) \div 2) \o ConcatRange(f, (lo + hi) \div 2 + 1, hi)

\* bytes to bits, low bit of each byte first (put_byte after send_bits)
BytesToBits(s) ==
    [ i \in 1..(8 * Len(s)) |-> BitsLsb(s[((i - 1) \div 8) + 1], 8)[((i - 1) % 8) + 1] ]

\* bi_windup: zero bits up to the next byte boundary
Windup(bits) == bits \o [ i \in 1..((8 - (Len(bits) % 8)) % 8) |-> 0 ]

\* bits to bytes, first bit in the low end, the last byte zero padded
BitsToBytes(bits) ==
    LET b == bits \o << 0, 0, 0, 0, 0, 0, 0 >>
    IN  [ j \in 1..((Len(bits) + 7) \div 8) |->
            b[8 * j - 7] + 2 * b[8 * j - 6] + 4 * b[8 * j - 5] + 8 * b[8 * j - 4]
            + 16 * b[8 * j - 3] + 32 * b[8 * j - 2] + 64 * b[8 * j - 1] + 128 * b[8 * j] ]

LITERALS == 256
END_BLOCK == 256
L_CODES == 286
D_CODES == 30
BL_CODES == 19
MAX_BITS == 15
MAX_BL_BITS == 7
REP_3_6 == 16
REPZ_3_10 == 17
REPZ_11_138 == 18
\* lit_bufsize - 1 symbols fill the symbol buffer (lit_bufsize = 1 << (8 + 6))
LitBufSymbols == 16383

\* static_ltree: the code of literal/length symbol 0..287
FixedLitCode(sym) ==
    IF sym <= 143 THEN BitsMsb(48 + sym, 8)
    ELSE IF sym <= 255 THEN BitsMsb(400 + (sym - 144), 9)
    ELSE IF sym <= 279 THEN BitsMsb(sym - 256, 7)
    ELSE BitsMsb(192 + (sym - 280), 8)

\* static_ltree and static_dtree as code tables
StaticLTree == [ n \in 0..(L_CODES - 1) |-> FixedLitCode(n) ]
StaticDTree == [ n \in 0..(D_CODES - 1) |-> BitsMsb(n, 5) ]

\* extra_blbits and bl_order
ExtraBlBits ==
    [ n \in 0..(BL_CODES - 1) |->
        IF n = REP_3_6 THEN 2 ELSE IF n = REPZ_3_10 THEN 3 ELSE IF n = REPZ_11_138 THEN 7 ELSE 0 ]
BlOrder == << 16, 17, 18, 0, 8, 7, 9, 6, 10, 5, 11, 4, 12, 3, 13, 2, 14, 1, 15 >>

\* static_l_desc, static_d_desc, static_bl_desc: the number of codes, the
\* longest code allowed, the extra bits of each code and the lengths of the
\* static tree (none for the bit length tree)
LDesc ==
    [ elems |-> L_CODES, max_length |-> MAX_BITS, has_stree |-> TRUE,
      xbits |-> [ n \in 0..(L_CODES - 1) |-> IF n > LITERALS THEN LengthExtra[n - LITERALS] ELSE 0 ],
      slen |-> [ n \in 0..(L_CODES - 1) |-> Len(FixedLitCode(n)) ] ]
DDesc ==
    [ elems |-> D_CODES, max_length |-> MAX_BITS, has_stree |-> TRUE,
      xbits |-> [ n \in 0..(D_CODES - 1) |-> DistExtra[n + 1] ],
      slen |-> [ n \in 0..(D_CODES - 1) |-> 5 ] ]
BlDesc ==
    [ elems |-> BL_CODES, max_length |-> MAX_BL_BITS, has_stree |-> FALSE,
      xbits |-> ExtraBlBits,
      slen |-> [ n \in 0..(BL_CODES - 1) |-> 0 ] ]

\* the elements of a finite set of integers in increasing order
Ascending(S) ==
    [ i \in 1..Cardinality(S) |-> CHOOSE n \in S : Cardinality({ m \in S : m < n }) = i - 1 ]

\* smaller(tree, n, m, depth): by frequency, the depth of the subtree
\* breaking ties
Smaller(freq, depth, n, m) ==
    freq[n] < freq[m] \/ (freq[n] = freq[m] /\ depth[n] <= depth[m])

\* pqdownheap: v sinks from slot k of the heap until both sons are larger
RECURSIVE PqDownHeap(_, _, _, _, _, _)
PqDownHeap(heap, heap_len, freq, depth, v, k) ==
    LET j0 == 2 * k
        j == IF j0 < heap_len /\ Smaller(freq, depth, heap[j0 + 1], heap[j0]) THEN j0 + 1 ELSE j0
    IN  IF j0 > heap_len THEN [heap EXCEPT ![k] = v]
        ELSE IF Smaller(freq, depth, v, heap[j]) THEN [heap EXCEPT ![k] = v]
        ELSE PqDownHeap([heap EXCEPT ![k] = heap[j]], heap_len, freq, depth, v, j)

\* build_tree's for (n = heap_len/2; n >= 1; n--) pqdownheap(s, tree, n),
\* here for n = hi down to lo (the range is halved to keep the evaluation
\* shallow; the slots are still treated in decreasing order)
RECURSIVE Heapify(_, _, _, _, _, _)
Heapify(heap, heap_len, freq, depth, hi, lo) ==
    IF hi < lo THEN heap
    ELSE IF hi = lo THEN PqDownHeap(heap, heap_len, freq, depth, heap[hi], hi)
    ELSE LET mid == (hi + lo) \div 2
             first == Heapify(heap, heap_len, freq, depth, hi, mid + 1)
         IN  IF Len(first) = Len(heap)
             THEN Heapify(first, heap_len, freq, depth, mid, lo) ELSE first

\* one turn of build_tree's do-while loop: the two least frequent nodes n and
\* m leave the heap for the sorted part (m below n) and their father, a new
\* node, enters the heap
MergeStep(st) ==
    LET n == st.heap[1]
        last == st.heap[st.heap_len]
        h1 == PqDownHeap([st.heap EXCEPT ![1] = last], st.heap_len - 1,
                         st.freq, st.depth, last, 1)
        m == h1[1]
        freq == [st.freq EXCEPT ![st.node] = st.freq[n] + st.freq[m]]
        depth == [st.depth EXCEPT ![st.node] =
                     (IF st.depth[n] >= st.depth[m] THEN st.depth[n] ELSE st.depth[m]) + 1]
        dad1 == [st.dad EXCEPT ![n] = st.node]
    IN  [ heap |-> PqDownHeap([h1 EXCEPT ![1] = st.node], st.heap_len - 1,
                              freq, depth, st.node, 1),
          heap_len |-> st.heap_len - 1,
          sorted |-> << m, n >> \o st.sorted,
          freq |-> freq,
          depth |-> depth,
          dad |-> [dad1 EXCEPT ![m] = st.node],
          node |-> st.node + 1 ]

\* k turns of the loop (halved like Heapify)
RECURSIVE MergeLoop(_, _)
MergeLoop(st, k) ==
    IF k = 0 THEN st
    ELSE IF k = 1 THEN MergeStep(st)
    ELSE LET first == MergeLoop(st, k \div 2)
         IN  IF first.heap_len >= 1 THEN MergeLoop(first, k - (k \div 2)) ELSE first

\* the number of fathers between node n and the root
RECURSIVE NodeDepth(_, _, _)
NodeDepth(dad, n, root) == IF n = root THEN 0 ELSE 1 + NodeDepth(dad, dad[n], root)

\* gen_bitlen's repair when codes came out longer than max_length: for each
\* pair of overflowing codes one leaf of the deepest shorter length moves a
\* level down and takes one overflowing code as its brother
RECURSIVE MoveOverflow(_, _, _)
MoveOverflow(bl_count, overflow, max_length) ==
    LET bits == SetMax({ b \in 1..(max_length - 1) : bl_count[b] # 0 })
        c1 == [bl_count EXCEPT ![bits] = @ - 1]
        c2 == [c1 EXCEPT ![bits + 1] = @ + 2]
        c3 == [c2 EXCEPT ![max_length] = @ - 1]
    IN  IF overflow - 2 > 0 THEN MoveOverflow(c3, overflow - 2, max_length) ELSE c3

\* gen_codes: the first code of each length
RECURSIVE NextCode(_, _)
NextCode(bl_count, bits) ==
    IF bits = 0 THEN 0 ELSE (NextCode(bl_count, bits - 1) + bl_count[bits - 1]) * 2

\* gen_codes, and what the tree adds to opt_len and static_len: the result
\* of build_tree for the code lengths lens.  Codes of one length go up with
\* the symbol.
GenCodes(desc, freq, leaves, forced, max_code, bl_count, lens) ==
    LET elems == desc.elems
        code(n) == NextCode(bl_count, lens[n])
                   + Cardinality({ m \in 0..(n - 1) : lens[m] = lens[n] })
    IN  [ lens |-> lens,
          codes |-> [ n \in 0..(elems - 1) |-> BitsMsb(code(n), lens[n]) ],
          max_code |-> max_code,
          opt_len |-> SumRange([ n \in 0..(elems - 1) |->
                                   freq[n] * (lens[n] + (IF n \in leaves THEN desc.xbits[n] ELSE 0)) ],
                               0, elems - 1) - Len(forced),
          static_len |-> IF desc.has_stree
                         THEN SumRange([ n \in 0..(elems - 1) |->
                                           freq[n] * (desc.slen[n] + desc.xbits[n]) ],
                                       0, elems - 1)
                              - SumRange([ i \in 1..Len(forced) |-> desc.slen[forced[i]] ],
                                         1, Len(forced))
                         ELSE 0 ]

\* gen_bitlen's last loop: with overflow, the leaves from the end of the
\* sorted part (order) down take the lengths max_length, ..., 1, bl_count[bits]
\* leaves each; without, each leaf keeps its depth
GenLengths(desc, freq, leaves, forced, max_code, order, overflow, cut_len, bl_count) ==
    LET max_length == desc.max_length
        backwards == SelectSeq([ i \in 1..Len(order) |-> order[Len(order) + 1 - i] ],
                               LAMBDA n : n <= max_code)
        longer(b) == SumRange(bl_count, b, max_length)
    IN  GenCodes(desc, freq, leaves, forced, max_code, bl_count,
            [ n \in 0..(desc.elems - 1) |->
                IF n \notin leaves THEN 0
                ELSE IF overflow = 0 THEN cut_len[n]
                ELSE LET rank == CHOOSE i \in 1..Len(backwards) : backwards[i] = n
                     IN  SetMax({ b \in 1..max_length : longer(b) >= rank }) ])

\* gen_bitlen on the merged tree st: the length of a node is its father's
\* plus one, cut at max_length; overflow counts the nodes (leaves or not)
\* that were cut
GenBitlen(desc, freq, leaves, forced, max_code, st) ==
    LET max_length == desc.max_length
        root == st.heap[1]
        \* heap[heap_max .. HEAP_SIZE-1], the nodes sorted by frequency
        order == << root >> \o st.sorted
        true_depth == [ i \in 1..Len(order) |-> NodeDepth(st.dad, order[i], root) ]
        overflow == Cardinality({ i \in 2..Len(order) : true_depth[i] > max_length })
        cut_len == [ n \in leaves |->
                       Min(true_depth[CHOOSE i \in 1..Len(order) : order[i] = n], max_length) ]
        bl_count0 == [ b \in 0..MAX_BITS |-> Cardinality({ n \in leaves : cut_len[n] = b }) ]
    IN  GenLengths(desc, freq, leaves, forced, max_code, order, overflow, cut_len,
            IF overflow = 0 THEN bl_count0
            ELSE MoveOverflow(bl_count0, overflow, max_length))

\* build_tree: the Huffman tree of the frequencies freq0 under the
\* descriptor desc.  The result holds the code lengths, the codes as bit
\* strings, max_code, and what the tree adds to opt_len and static_len.
BuildTree(freq0, desc) ==
    LET elems == desc.elems
        used == { n \in 0..(elems - 1) : freq0[n] # 0 }
        max0 == IF used = {} THEN 0 - 1 ELSE SetMax(used)
        \* while (heap_len < 2): node = (max_code < 2 ? ++max_code : 0)
        forced == IF Cardinality(used) >= 2 THEN << >>
                  ELSE IF used = {} THEN << 0, 1 >>
                  ELSE IF max0 < 2 THEN << max0 + 1 >>
                  ELSE << 0 >>
        max_code == IF max0 < 2 THEN max0 + Len(forced) ELSE max0
        leaves == used \cup { forced[i] : i \in 1..Len(forced) }
        nodes == 0..(2 * elems)
        freq1 == [ n \in nodes |-> IF n \in used THEN freq0[n]
                                   ELSE IF n \in leaves THEN 1 ELSE 0 ]
        zero == [ n \in nodes |-> 0 ]
        heap0 == Ascending(used) \o forced
    IN  GenBitlen(desc, freq1, leaves, forced, max_code,
            MergeLoop([ heap |-> Heapify(heap0, Len(heap0), freq1, zero, Len(heap0) \div 2, 1),
                        heap_len |-> Len(heap0), sorted |-> << >>,
                        freq |-> freq1, depth |-> zero, dad |-> zero, node |-> elems ],
                      Len(heap0) - 1))

\* scan_tree and send_tree, one turn of their loop for code n: a run of equal
\* lengths ends when the next length differs or the run is at max_count, and
\* is sent as the length itself (short runs), as the length once and
\* REP_3_6, or as REPZ_3_10 / REPZ_11_138 for zeros.  A sent symbol is
\* << symbol, extra value, extra bits >>.
RunStep(st, lens, max_code, n) ==
    LET curlen == lens[n]
        \* tree[max_code + 1].Len = 0xffff is the guard
        nextlen == IF n < max_code THEN lens[n + 1] ELSE 65535
        count == st.count + 1
        sent == IF count < st.min_count THEN [ i \in 1..count |-> << curlen, 0, 0 >> ]
                ELSE IF curlen # 0
                THEN IF curlen # st.prevlen
                     THEN << << curlen, 0, 0 >>, << REP_3_6, count - 1 - 3, 2 >> >>
                     ELSE << << REP_3_6, count - 3, 2 >> >>
                ELSE IF count <= 10 THEN << << REPZ_3_10, count - 3, 3 >> >>
                ELSE << << REPZ_11_138, count - 11, 7 >> >>
    IN  IF count < st.max_count /\ curlen = nextlen
        THEN [st EXCEPT !.count = count]
        ELSE [ prevlen |-> curlen,
               count |-> 0,
               max_count |-> IF nextlen = 0 THEN 138 ELSE IF curlen = nextlen THEN 6 ELSE 7,
               min_count |-> IF nextlen = 0 THEN 3 ELSE IF curlen = nextlen THEN 3 ELSE 4,
               out |-> st.out \o sent ]

\* the turns for the codes lo..hi (halved like Heapify)
RECURSIVE RunLoop(_, _, _, _, _)
RunLoop(st, lens, max_code, lo, hi) ==
    IF lo > hi THEN st
    ELSE IF lo = hi THEN RunStep(st, lens, max_code, lo)
    ELSE LET mid == (lo + hi) \div 2
             first == RunLoop(st, lens, max_code, lo, mid)
         IN  IF first.count >= 0 THEN RunLoop(first, lens, max_code, mid + 1, hi) ELSE first

\* the symbols scan_tree counts and send_tree sends for the codes 0..max_code
TreeRuns(lens, max_code) ==
    RunLoop([ prevlen |-> 0 - 1, count |-> 0,
              max_count |-> IF lens[0] = 0 THEN 138 ELSE 7,
              min_count |-> IF lens[0] = 0 THEN 3 ELSE 4,
              out |-> << >> ],
            lens, max_code, 0, max_code).out

\* _tr_tally's codes of a symbol: the literal or the length code, and the
\* distance code
LitLenCode(t) ==
    IF t[1] = "L" THEN t[2] ELSE LITERALS + CodeIndex(LengthBase, t[2], 1)
DistCode(t) == CodeIndex(DistBase, t[3], 1) - 1

\* compress_block: the bits of one symbol under the trees ltree and dtree
TokenBits(t, ltree, dtree) ==
    IF t[1] = "L" THEN ltree[t[2]]
    ELSE LET lc == CodeIndex(LengthBase, t[2], 1)
             dc == CodeIndex(DistBase, t[3], 1)
         IN  ltree[LITERALS + lc]
             \o BitsLsb(t[2] - LengthBase[lc], LengthExtra[lc])
             \o dtree[dc - 1]
             \o BitsLsb(t[3] - DistBase[dc], DistExtra[dc])

\* compress_block: all the symbols, then END_BLOCK
CompressBlock(ts, ltree, dtree) ==
    ConcatRange([ i \in 1..Len(ts) |-> TokenBits(ts[i], ltree, dtree) ], 1, Len(ts))
    \o ltree[END_BLOCK]

\* _tr_stored_block: the block type, zero bits up to the byte boundary, the
\* length and its complement (low byte first), the bytes
StoredBlock(bits, buf, last) ==
    Windup(bits \o BitsLsb(last, 3))
    \o BytesToBits(<< Len(buf) % 256, Len(buf) \div 256,
                      255 - (Len(buf) % 256), 255 - (Len(buf) \div 256) >> \o buf)

\* send_all_trees: the counts of codes, the lengths of the bit length codes
\* in bl_order, then the two trees as runs under the bit length tree
SendAllTrees(lt, dt, bt, max_blindex, runs) ==
    BitsLsb(lt.max_code + 1 - 257, 5)
    \o BitsLsb(dt.max_code + 1 - 1, 5)
    \o BitsLsb(max_blindex + 1 - 4, 4)
    \o ConcatRange([ rank \in 1..(max_blindex + 1) |-> BitsLsb(bt.lens[BlOrder[rank]], 3) ],
                   1, max_blindex + 1)
    \o ConcatRange([ i \in 1..Len(runs) |->
                       bt.codes[runs[i][1]] \o BitsLsb(runs[i][2], runs[i][3]) ],
                   1, Len(runs))

\* the end of _tr_flush_block, the trees being built: the block is stored
\* when that is no longer than the best of the trees (stored_len + 4 <=
\* opt_lenb), else sent with the static trees when they are no longer than
\* the dynamic ones, else with the dynamic trees
SendBlock(bits, ts, buf, last, lt, dt, runs, bt) ==
    LET max_blindex == SetMax({ 2 } \cup { i \in 3..(BL_CODES - 1) : bt.lens[BlOrder[i + 1]] # 0 })
        opt_len == lt.opt_len + dt.opt_len + bt.opt_len + 3 * (max_blindex + 1) + 5 + 5 + 4
        static_len == lt.static_len + dt.static_len
        static_lenb == (static_len + 3 + 7) \div 8
        opt_lenb == Min((opt_len + 3 + 7) \div 8, static_lenb)
    IN  IF Len(buf) + 4 <= opt_lenb
        THEN StoredBlock(bits, buf, last)
        ELSE IF static_lenb = opt_lenb
        THEN bits \o BitsLsb(2 + last, 3) \o CompressBlock(ts, StaticLTree, StaticDTree)
        ELSE bits \o BitsLsb(4 + last, 3)
             \o SendAllTrees(lt, dt, bt, max_blindex, runs)
             \o CompressBlock(ts, lt.codes, dt.codes)

\* build_bl_tree: the bit length tree, from the frequencies of the symbols
\* runs that describe the two trees
BuildBlTree(bits, ts, buf, last, lt, dt, runs) ==
    LET bl_tree == [ n \in 0..(BL_CODES - 1) |->
                       Cardinality({ i \in 1..Len(runs) : runs[i][1] = n }) ]
    IN  SendBlock(bits, ts, buf, last, lt, dt, runs, BuildTree(bl_tree, BlDesc))

\* build_bl_tree's two calls of scan_tree
ScanTrees(bits, ts, buf, last, lt, dt) ==
    BuildBlTree(bits, ts, buf, last, lt, dt,
                TreeRuns(lt.lens, lt.max_code) \o TreeRuns(dt.lens, dt.max_code))

\* _tr_flush_block: the bits sent so far followed by the block of the symbols
\* ts, which stand for the bytes buf.  The frequencies are those counted by
\* init_block and _tr_tally; the literal and the distance tree are built from
\* them.
TrFlushBlock(bits, ts, buf, last) ==
    LET lcodes == [ i \in 1..Len(ts) |-> LitLenCode(ts[i]) ]
        matches == { i \in 1..Len(ts) : ts[i][1] = "M" }
        dcodes == [ i \in matches |-> DistCode(ts[i]) ]
        dyn_ltree == [ n \in 0..(L_CODES - 1) |->
                         Cardinality({ i \in 1..Len(ts) : lcodes[i] = n })
                         + (IF n = END_BLOCK THEN 1 ELSE 0) ]
        dyn_dtree == [ n \in 0..(D_CODES - 1) |-> Cardinality({ i \in matches : dcodes[i] = n }) ]
    IN  ScanTrees(bits, ts, buf, last, BuildTree(dyn_ltree, LDesc), BuildTree(dyn_dtree, DDesc))

\* the number of input bytes a symbol stands for
SymLen(t) == IF t[1] = "L" THEN 1 ELSE t[2]

\* the blocks of the symbols ts, whose bytes start at block_start.  A block
\* is flushed, not as the last one, as soon as deflate_slow's loop has
\* tallied LitBufSymbols symbols; what remains at the end of the input,
\* possibly nothing, is the last block.  (A literal that ends the symbols is
\* the one tallied after the loop, which never flushes.)  AfterBlock goes on
\* with the symbols left once the bits of a block are sent.
RECURSIVE DeflateBlocks(_, _, _, _)
AfterBlock(sent, flush, ts, w, block_start) ==
    IF flush THEN DeflateBlocks(sent, ts, w, block_start) ELSE sent

DeflateBlocks(bits, ts, w, block_start) ==
    LET flush == \/ Len(ts) > LitBufSymbols
                 \/ (Len(ts) = LitBufSymbols /\ ts[LitBufSymbols][1] = "M")
        block == IF flush THEN SubSeq(ts, 1, LitBufSymbols) ELSE ts
        stored_len == SumRange([ i \in 1..Len(block) |-> SymLen(block[i]) ], 1, Len(block))
        buf == SubSeq(w, block_start + 1, block_start + stored_len)
    IN  AfterBlock(TrFlushBlock(bits, block, buf, IF flush THEN 0 ELSE 1), flush,
                   SubSeq(ts, LitBufSymbols + 1, Len(ts)), w, block_start + stored_len)

\* deflate(Z_FINISH) on the whole input: the blocks, the last byte padded
DeflateBody(w) == BitsToBytes(DeflateBlocks(<< >>, Lz77(w), w, 0))

\* CMF = 78 (deflate, 32K window), FLG = DA (level flags 3, check bits)
ZlibHeader == << 120, 218 >>

ZlibCompress(w) == ZlibHeader \o DeflateBody(w) \o Adler32(w)

(***************************************************************************)
(* A decoder for the target format, written from the format's definition   *)
(* (RFC 1950, RFC 1951, PNG), not from the encoder: it is what the claims  *)
(* about decoded width, height and pixels are stated with.                 *)
(***************************************************************************)
Failed == [ok |-> FALSE, data |-> << >>]

\* the n bits at pos read as a number, first bit most / least significant
RECURSIVE ReadMsb(_, _, _)
ReadMsb(bits, pos, n) ==
    IF n = 0 THEN 0 ELSE 2 * ReadMsb(bits, pos, n - 1) + bits[pos + n - 1]

RECURSIVE ReadLsb(_, _, _)
ReadLsb(bits, pos, n) ==
    IF n = 0 THEN 0 ELSE bits[pos] + 2 * ReadLsb(bits, pos + 1, n - 1)

\* the literal/length symbol at pos under the fixed code: << symbol, width >>,
\* width 0 when the bits run out
FixedSymbol(bits, pos) ==
    LET have == Len(bits) - pos + 1
        v7 == ReadMsb(bits, pos, 7)
        v8 == ReadMsb(bits, pos, 8)
        v9 == ReadMsb(bits, pos, 9)
    IN  IF have < 7 THEN << 0, 0 >>
        ELSE IF v7 <= 23 THEN << 256 + v7, 7 >>
        ELSE IF have < 8 THEN << 0, 0 >>
        ELSE IF v8 >= 48 /\ v8 <= 191 THEN << v8 - 48, 8 >>
        ELSE IF v8 >= 192 /\ v8 <= 199 THEN << 280 + (v8 - 192), 8 >>
        ELSE IF have < 9 THEN << 0, 0 >>
        ELSE << 144 + (v9 - 400), 9 >>

\* append len bytes copied from dist bytes back, one at a time: when the copy
\* overlaps its own output the last dist bytes repeat
CopyMatch(out, dist, len) ==
    out \o [ i \in 1..len |-> out[Len(out) - dist + 1 + ((i - 1) % dist)] ]

\* the symbols of a fixed-code block from pos on: [ok, data, pos after the block]
RECURSIVE InflateFixed(_, _, _)
InflateFixed(bits, pos, out) ==
    LET sw == FixedSymbol(bits, pos)
        sym == sw[1]
        p1 == pos + sw[2]
        lc == sym - 256
        p2 == p1 + LengthExtra[lc]
        len == LengthBase[lc] + ReadLsb(bits, p1, LengthExtra[lc])
        dc == ReadMsb(bits, p2, 5) + 1
        p3 == p2 + 5
        p4 == p3 + DistExtra[dc]
        dist == DistBase[dc] + ReadLsb(bits, p3, DistExtra[dc])
    IN  IF sw[2] = 0 THEN [ok |-> FALSE, data |-> out, pos |-> pos]
        ELSE IF sym < 256 THEN InflateFixed(bits, p1, Append(out, sym))
        ELSE IF sym = 256 THEN [ok |-> TRUE, data |-> out, pos |-> p1]
        ELSE IF sym > 285 \/ p3 - 1 > Len(bits) THEN [ok |-> FALSE, data |-> out, pos |-> pos]
        ELSE IF dc > 30 \/ p4 - 1 > Len(bits) THEN [ok |-> FALSE, data |-> out, pos |-> pos]
        ELSE IF dist > Len(out) THEN [ok |-> FALSE, data |-> out, pos |-> pos]
        ELSE InflateFixed(bits, p4, CopyMatch(out, dist, len))

\* the first code of length n in the canonical Huffman code of the lengths
\* lens, where lens[s + 1] is the length of symbol s (RFC 1951, 3.2.2)
RECURSIVE FirstCode(_, _)
FirstCode(lens, n) ==
    IF n <= 1 THEN 0
    ELSE (FirstCode(lens, n - 1) + Cardinality({ s \in 1..Len(lens) : lens[s] = n - 1 })) * 2

\* the symbol at pos under that code: << symbol, width >>, width 0 when no
\* code matches the bits
HuffSymbol(bits, pos, lens) ==
    LET have == Len(bits) - pos + 1
        hit(n) == { s \in 1..Len(lens) :
                      /\ lens[s] = n
                      /\ FirstCode(lens, n) + Cardinality({ r \in 1..(s - 1) : lens[r] = n })
                            = ReadMsb(bits, pos, n) }
        widths == { n \in 1..Min(15, have) : hit(n) # {} }
    IN  IF widths = {} THEN << 0, 0 >>
        ELSE << (CHOOSE s \in hit(SetMin(widths)) : TRUE) - 1, SetMin(widths) >>

\* the order in which the lengths of the code length code are stored
ClOrder == << 16, 17, 18, 0, 8, 7, 9, 6, 10, 5, 11, 4, 12, 3, 13, 2, 14, 1, 15 >>

\* the code lengths of a dynamic block, total of them, coded with the code
\* length code cl: 0..15 is a length, 16 repeats the last length 3..6 times,
\* 17 and 18 repeat zero 3..10 and 11..138 times
RECURSIVE ReadLengths(_, _, _, _, _)
ReadLengths(bits, pos, cl, acc, total) ==
    LET sw == HuffSymbol(bits, pos, cl)
        sym == sw[1]
        p1 == pos + sw[2]
        xbits == IF sym = 16 THEN 2 ELSE IF sym = 17 THEN 3 ELSE 7
        times == (IF sym = 18 THEN 11 ELSE 3) + ReadLsb(bits, p1, xbits)
        what == IF sym = 16 THEN acc[Len(acc)] ELSE 0
        bad == [ok |-> FALSE, lens |-> acc, pos |-> pos]
    IN  IF Len(acc) >= total THEN [ok |-> Len(acc) = total, lens |-> acc, pos |-> pos]
        ELSE IF sw[2] = 0 THEN bad
        ELSE IF sym < 16 THEN ReadLengths(bits, p1, cl, Append(acc, sym), total)
        ELSE IF p1 + xbits - 1 > Len(bits) \/ (sym = 16 /\ acc = << >>) THEN bad
        ELSE ReadLengths(bits, p1 + xbits, cl, acc \o [ i \in 1..times |-> what ], total)

\* the symbols of a block coded with the literal/length code llens and the
\* distance code dlens, from pos on: [ok, data, pos after the block]
RECURSIVE InflateCodes(_, _, _, _, _)
InflateCodes(bits, pos, out, llens, dlens) ==
    LET sw == HuffSymbol(bits, pos, llens)
        sym == sw[1]
        p1 == pos + sw[2]
        lc == sym - 256
        p2 == p1 + LengthExtra[lc]
        len == LengthBase[lc] + ReadLsb(bits, p1, LengthExtra[lc])
        dw == HuffSymbol(bits, p2, dlens)
        dc == dw[1] + 1
        p3 == p2 + dw[2]
        p4 == p3 + DistExtra[dc]
        dist == DistBase[dc] + ReadLsb(bits, p3, DistExtra[dc])
        bad == [ok |-> FALSE, data |-> out, pos |-> pos]
    IN  IF sw[2] = 0 THEN bad
        ELSE IF sym < 256 THEN InflateCodes(bits, p1, Append(out, sym), llens, dlens)
        ELSE IF sym = 256 THEN [ok |-> TRUE, data |-> out, pos |-> p1]
        ELSE IF sym > 285 \/ p2 - 1 > Len(bits) THEN bad
        ELSE IF dw[2] = 0 \/ dc > 30 \/ p4 - 1 > Len(bits) THEN bad
        ELSE IF dist > Len(out) THEN bad
        ELSE InflateCodes(bits, p4, CopyMatch(out, dist, len), llens, dlens)

\* a block with dynamic codes: the counts of codes, the code length code, the
\* lengths of the two codes, the symbols
InflateDynamic(bits, pos, out) ==
    LET hlit == ReadLsb(bits, pos, 5) + 257
        hdist == ReadLsb(bits, pos + 5, 5) + 1
        hclen == ReadLsb(bits, pos + 10, 4) + 4
        cl == [ s \in 1..19 |->
                  LET at == { i \in 1..hclen : ClOrder[i] = s - 1 }
                  IN  IF at = {} THEN 0
                      ELSE ReadLsb(bits, pos + 14 + 3 * ((CHOOSE i \in at : TRUE) - 1), 3) ]
        r == ReadLengths(bits, pos + 14 + 3 * hclen, cl, << >>, hlit + hdist)
        bad == [ok |-> FALSE, data |-> out, pos |-> pos]
    IN  IF pos + 13 > Len(bits) THEN bad
        ELSE IF hlit > 286 \/ hdist > 30 \/ pos + 13 + 3 * hclen > Len(bits) THEN bad
        ELSE IF ~r.ok THEN bad
        ELSE InflateCodes(bits, r.pos, out, SubSeq(r.lens, 1, hlit),
                          SubSeq(r.lens, hlit + 1, hlit + hdist))

\* a stored block: the bytes after LEN and NLEN, which must be complements
InflateStored(bits, pos, out) ==
    LET p0 == pos + ((8 - ((pos - 1) % 8)) % 8)
        len == ReadLsb(bits, p0, 16)
        nlen == ReadLsb(bits, p0 + 16, 16)
        p1 == p0 + 32
    IN  IF p1 - 1 > Len(bits) THEN [ok |-> FALSE, data |-> out, pos |-> pos]
        ELSE IF len + nlen # 65535 \/ p1 + 8 * len - 1 > Len(bits)
        THEN [ok |-> FALSE, data |-> out, pos |-> pos]
        ELSE [ok |-> TRUE,
              data |-> out \o [i \in 1..len |-> ReadLsb(bits, p1 + 8 * (i - 1), 8)],
              pos |-> p1 + 8 * len]

\* the blocks of a DEFLATE stream up to and including the final one
RECURSIVE InflateBlocks(_, _, _)
InflateBlocks(bits, pos, out) ==
    IF pos + 2 > Len(bits) THEN [ok |-> FALSE, data |-> out, pos |-> pos]
    ELSE LET final == bits[pos]
             type == ReadLsb(bits, pos + 1, 2)
             r == IF type = 0 THEN InflateStored(bits, pos + 3, out)
                  ELSE IF type = 1 THEN InflateFixed(bits, pos + 3, out)
                  ELSE IF type = 2 THEN InflateDynamic(bits, pos + 3, out)
                  ELSE [ok |-> FALSE, data |-> out, pos |-> pos]
         IN  IF ~r.ok \/ final = 1 THEN r ELSE InflateBlocks(bits, r.pos, r.data)

\* zlib decompression: header checks, the blocks, the Adler-32 of the result
ZlibDecompress(s) ==
    IF Len(s) < 6 THEN Failed
    ELSE IF s[1] % 16 # 8 \/ (s[1] * 256 + s[2]) % 31 # 0 \/ (s[2] \div 32) % 2 # 0
    THEN Failed
    ELSE LET body == SubSeq(s, 3, Len(s) - 4)
             r == InflateBlocks(BytesToBits(body), 1, << >>)
         IN  IF ~r.ok THEN Failed
             ELSE IF (r.pos - 1 + 7) \div 8 # Len(body) THEN Failed
             ELSE IF Adler32(r.data) # SubSeq(s, Len(s) - 3, Len(s)) THEN Failed
             ELSE [ok |-> TRUE, data |-> r.data]

PngMagic == << 137, 80, 78, 71, 13, 10, 26, 10 >>

\* the chunks of s from byte pos on, each [length, tag, data, crc]; a chunk
\* that does not fit ends the list with the marker [length |-> -1]
RECURSIVE ReadChunks(_, _)
ReadChunks(s, pos) ==
    IF pos > Len(s) THEN << >>
    ELSE IF pos + 11 > Len(s) THEN << [length |-> -1] >>
    ELSE LET hi == s[pos] IN
         IF hi >= 128 THEN << [length |-> -1] >>
         ELSE LET n == UnpackU32(SubSeq(s, pos, pos + 3)) IN
              IF pos + 11 + n > Len(s) THEN << [length |-> -1] >>
              ELSE << [length |-> n,
                       tag |-> SubSeq(s, pos + 4, pos + 7),
                       data |-> SubSeq(s, pos + 8, pos + 7 + n),
                       crc |-> SubSeq(s, pos + 8 + n, pos + 11 + n)] >>
                   \o ReadChunks(s, pos + 12 + n)

\* the scanlines of a raster of the given width with filter type none: the
\* pixel rows, or failure when a filter byte is not 0 or the length is off
RECURSIVE Unfilter(_, _)
Unfilter(raw, width) ==
    IF raw = << >> THEN [ok |-> TRUE, data |-> << >>]
    ELSE IF Len(raw) < 1 + 4 * width \/ raw[1] # 0 THEN Failed
    ELSE LET rest == Unfilter(SubSeq(raw, 2 + 4 * width, Len(raw)), width)
         IN  IF ~rest.ok THEN Failed
             ELSE [ok |-> TRUE,
                   data |-> << [x \in 1..width |-> SubSeq(raw, 2 + 4 * (x - 1), 1 + 4 * x)] >>
                            \o rest.data]

(***************************************************************************)
(* create_png's constants and byte-string expressions.                     *)
(***************************************************************************)
\* r, g, b, a = 124, 58, 237, 255
Colour == << 124, 58, 237, 255 >>

\* mutant: the rows start with filter type Sub instead of None
FilterByteSub == << 1 >>

\* b'\x00', the filter byte that starts each row
FilterByte == << 0 >>

\* mutant: the alpha channel is left out of each pixel
PixelBytesNoAlpha == << Colour[1], Colour[2], Colour[3] >>

\* bytes([r, g, b, a])
PixelBytes == Colour

\* b'\x89PNG\r\n\x1a\n'
Signature == << 137, 80, 78, 71, 13, 10, 26, 10 >>

\* b'IHDR', b'IDAT', b'IEND'
IHDR == << 73, 72, 68, 82 >>
IDAT == << 73, 68, 65, 84 >>
IEND == << 73, 69, 78, 68 >>

\* mutant: the header packed little-endian ('<IIBBBBB')
IhdrDataLittleEndian(width, height) ==
    << width % 256, (width \div 256) % 256, (width \div 65536) % 256,
       (width \div 16777216) % 256,
       height % 256, (height \div 256) % 256, (height \div 65536) % 256,
       (height \div 16777216) % 256, 8, 6, 0, 0, 0 >>

\* struct.pack('>IIBBBBB', width, height, 8, 6, 0, 0, 0)
IhdrData(width, height) == PackU32(width) \o PackU32(height) \o << 8, 6, 0, 0, 0 >>

\* mutant: the checksum taken over the payload alone
ChunkCrcDataOnly(tag, data) == Crc32(data)

\* struct.pack('>I', zlib.crc32(tag + data) & 0xffffffff)
ChunkCrc(tag, data) == Crc32(tag \o data)

\* ihdr = struct.pack('>I', 13) + b'IHDR' + ihdr_data + struct.pack('>I', ihdr_crc)
IhdrChunk(width, height) ==
    PackU32(13) \o IHDR \o IhdrData(width, height) \o ChunkCrc(IHDR, IhdrData(width, height))

\* idat = struct.pack('>I', len(compressed)) + b'IDAT' + compressed + crc
IdatChunk(data) == PackU32(Len(data)) \o IDAT \o data \o ChunkCrc(IDAT, data)

\* iend = struct.pack('>I', 0) + b'IEND' + struct.pack('>I', iend_crc)
IendChunk == PackU32(0) \o IEND \o ChunkCrc(IEND, << >>)

\* mutant: the size printed once
CreatedLineOneSize(name, n) == "Created " \o name \o " (" \o ToString(n) \o ")"

\* print(f"Created {filename} ({size}x{size})")
CreatedLine(name, n) ==
    "Created " \o name \o " (" \o ToString(n) \o "x" \o ToString(n) \o ")"

\* print("Icons created successfully!")
SummaryLine == "Icons created successfully!"

\* mutant: the @2x icon given the size in its name
SizesNoRetina ==
    << << 32, "32x32.png" >>,
       << 128, "128x128.png" >>,
       << 128, "128x128@2x.png" >>,
       << 512, "icon.png" >> >>

\* the module-level list of (size, filename) pairs
Sizes ==
    << << 32, "32x32.png" >>,
       << 128, "128x128.png" >>,
       << 256, "128x128@2x.png" >>,
       << 512, "icon.png" >> >>

(***************************************************************************)
(* The file system: every path the model looks at.  A file is a record     *)
(* [exists, data]; Stale is a file left by an earlier run or another       *)
(* program.                                                                *)
(***************************************************************************)
Names == { Sizes[i][2] : i \in 1..Len(Sizes) }
Paths == Names \cup { "icon.ico" }

NoFile == [exists |-> FALSE, data |-> << >>]
Stale == [exists |-> TRUE, data |-> << 0 >>]
File(data) == [exists |-> TRUE, data |-> data]

(***************************************************************************)
(* State.  pc is the statement about to run; the other variables are the   *)
(* driver's loop position, create_png's arguments and locals, the file     *)
(* system, the set of open files, the bytes held by the buffer of the file *)
(* object f and the lines printed.  opened (the names passed to open(), in *)
(* order) and fs0 (the initial file system) record history.                *)
(***************************************************************************)
VARIABLES sizes, idx, pc, size, filename, y, x, raw_data, compressed,
          ihdr, idat, iend, fs, open_files, f_buffer, out, exc, opened, fs0

vars == << sizes, idx, pc, size, filename, y, x, raw_data, compressed,
           ihdr, idat, iend, fs, open_files, f_buffer, out, exc, opened, fs0 >>

locals == << y, x, raw_data, compressed, ihdr, idat, iend >>
world == << fs, open_files, f_buffer, out, opened >>

\* a raster too large to enumerate, and what is derived from it, carried as
\* one opaque element (used by the driver specification only)
Opaque(what, n) == << [what |-> what, height |-> n, width |-> n, pixel |-> Colour] >>

InitCommon ==
    /\ idx = 0
    /\ pc = "for"
    /\ size = 0
    /\ filename = ""
    /\ y = 0
    /\ x = 0
    /\ raw_data = << >>
    /\ compressed = << >>
    /\ ihdr = << >>
    /\ idat = << >>
    /\ iend = << >>
    /\ open_files = {}
    /\ f_buffer = << >>
    /\ out = << >>
    /\ exc = "none"
    /\ opened = << >>
    /\ fs0 = fs

\* the script as written: the four pairs, any of the paths already present
Init ==
    /\ sizes = Sizes
    /\ fs \in [Paths -> {NoFile, Stale}]
    /\ InitCommon

\* create_png called once with a small or out-of-range size
InitEnc ==
    /\ \E n \in (0 - NegSizes)..MaxSize : sizes = << << n, "icon.png" >> >>
    /\ \E t \in {NoFile, Stale}, o \in {NoFile, Stale} :
          fs = [p \in Paths |-> IF p = "icon.png" THEN t
                                ELSE IF p = "icon.ico" THEN o ELSE NoFile]
    /\ InitCommon

(***************************************************************************)
(* The driver: for size, name in sizes: create_png(size, name), then the   *)
(* summary line.                                                           *)
(***************************************************************************)
\* lines 55-56 and 10, 16: the next pair is bound and create_png entered
Call ==
    /\ pc = "for"
    /\ idx < Len(sizes)
    /\ idx' = idx + 1
    /\ size' = sizes[idx + 1][1]
    /\ filename' = sizes[idx + 1][2]
    /\ y' = 0
    /\ x' = 0
    /\ raw_data' = << >>
    /\ compressed' = << >>
    /\ ihdr' = << >>
    /\ idat' = << >>
    /\ iend' = << >>
    /\ pc' = "row"
    /\ UNCHANGED << sizes, world, exc, fs0 >>

\* line 58, after the loop is exhausted
Summary ==
    /\ pc = "for"
    /\ idx = Len(sizes)
    /\ out' = Append(out, SummaryLine)
    /\ pc' = "done"
    /\ UNCHANGED << sizes, idx, size, filename, locals, fs, open_files, f_buffer, exc,
                    opened, fs0 >>

(***************************************************************************)
(* create_png, statement by statement (SpecEnc).                           *)
(***************************************************************************)
\* lines 17-18: the next row starts with its filter byte
RowStart ==
    /\ pc = "row"
    /\ y < size
    /\ raw_data' = raw_data \o FilterByte
    /\ x' = 0
    /\ pc' = "pixel"
    /\ UNCHANGED << sizes, idx, size, filename, y, compressed, ihdr, idat, iend,
                    world, exc, fs0 >>

\* lines 19-20: one pixel of the row
PixelAppend ==
    /\ pc = "pixel"
    /\ x < size
    /\ raw_data' = raw_data \o PixelBytes
    /\ x' = x + 1
    /\ UNCHANGED << sizes, idx, pc, size, filename, y, compressed, ihdr, idat, iend,
                    world, exc, fs0 >>

\* line 19 exhausted: back to line 17 for the next row
RowEnd ==
    /\ pc = "pixel"
    /\ x >= size
    /\ y' = y + 1
    /\ pc' = "row"
    /\ UNCHANGED << sizes, idx, size, filename, x, raw_data, compressed, ihdr, idat,
                    iend, world, exc, fs0 >>

\* mutant: the compression step also reports on standard output
CompressAndReport ==
    /\ pc = "row"
    /\ y >= size
    /\ compressed' = ZlibCompress(raw_data)
    /\ out' = Append(out, "Compressed " \o filename)
    /\ pc' = "ihdr"
    /\ UNCHANGED << sizes, idx, size, filename, y, x, raw_data, ihdr, idat, iend,
                    fs, open_files, f_buffer, opened, exc, fs0 >>

\* line 17 exhausted, line 23: compressed = zlib.compress(raw_data, 9)
Compress ==
    /\ pc = "row"
    /\ y >= size
    /\ compressed' = ZlibCompress(raw_data)
    /\ pc' = "ihdr"
    /\ UNCHANGED << sizes, idx, size, filename, y, x, raw_data, ihdr, idat, iend,
                    world, exc, fs0 >>

\* lines 26-31: the header chunk
Ihdr ==
    /\ pc = "ihdr"
    /\ PackableU32(size)
    /\ ihdr' = IhdrChunk(size, size)
    /\ pc' = "idat"
    /\ UNCHANGED << sizes, idx, size, filename, y, x, raw_data, compressed, idat, iend,
                    world, exc, fs0 >>

\* line 29: struct.pack raises struct.error for a size that is no unsigned int
IhdrError ==
    /\ pc = "ihdr"
    /\ ~PackableU32(size)
    /\ exc' = "struct.error"
    /\ pc' = "raised"
    /\ UNCHANGED << sizes, idx, size, filename, locals, world, fs0 >>

\* lines 34-35: the data chunk
Idat ==
    /\ pc = "idat"
    /\ idat' = IdatChunk(compressed)
    /\ pc' = "iend"
    /\ UNCHANGED << sizes, idx, size, filename, y, x, raw_data, compressed, ihdr, iend,
                    world, exc, fs0 >>

\* lines 38-39: the end chunk
Iend ==
    /\ pc = "iend"
    /\ iend' = IendChunk
    /\ pc' = "open"
    /\ UNCHANGED << sizes, idx, size, filename, y, x, raw_data, compressed, ihdr, idat,
                    world, exc, fs0 >>

(***************************************************************************)
(* create_png's encoding part in one step (Spec): lines 10-39 for the      *)
(* driver's sizes, whose rasters are too large to enumerate.  The header   *)
(* and end chunks are exact; the raster, its compressed stream and the     *)
(* data chunk are opaque.                                                  *)
(***************************************************************************)
Encode ==
    /\ pc = "row"
    /\ PackableU32(size)
    /\ y' = size
    /\ x' = size
    /\ raw_data' = Opaque("raw_data", size)
    /\ compressed' = Opaque("compressed", size)
    /\ ihdr' = IhdrChunk(size, size)
    /\ idat' = Opaque("idat", size)
    /\ iend' = IendChunk
    /\ pc' = "open"
    /\ UNCHANGED << sizes, idx, size, filename, world, exc, fs0 >>

(***************************************************************************)
(* create_png's file writing and report, lines 42-45 (both specifications).*)
(* open(filename, 'wb') gives a buffered writer: f.write of fewer bytes     *)
(* than the buffer holds (the block size of the file system, 4096 or more; *)
(* the largest of the script's files has 1820 bytes) only fills the        *)
(* buffer, and the bytes reach the file when the with block closes f.      *)
(***************************************************************************)
\* signature + ihdr + idat + iend
FileData == Signature \o ihdr \o idat \o iend

\* line 42: open(filename, 'wb') creates or truncates the file
Open ==
    /\ pc = "open"
    /\ fs' = [fs EXCEPT ![filename] = File(<< >>)]
    /\ open_files' = open_files \cup {filename}
    /\ f_buffer' = << >>
    /\ opened' = Append(opened, filename)
    /\ pc' = "write"
    /\ UNCHANGED << sizes, idx, size, filename, locals, out, exc, fs0 >>

\* mutant: the error of open is swallowed and the loop goes on
OpenFailIgnored ==
    /\ pc = "open"
    /\ opened' = Append(opened, filename)
    /\ pc' = "for"
    /\ UNCHANGED << sizes, idx, size, filename, locals, fs, open_files, f_buffer, out,
                    exc, fs0 >>

\* line 42: open raises OSError (permissions, missing directory); nothing is created
OpenFail ==
    /\ pc = "open"
    /\ opened' = Append(opened, filename)
    /\ exc' = "OSError"
    /\ pc' = "raised"
    /\ UNCHANGED << sizes, idx, size, filename, locals, fs, open_files, f_buffer, out, fs0 >>

\* line 43: f.write(...) puts all the bytes into the buffer of f; the file
\* on disk stays empty
Write ==
    /\ pc = "write"
    /\ f_buffer' = FileData
    /\ pc' = "close"
    /\ UNCHANGED << sizes, idx, size, filename, locals, fs, open_files, out, exc,
                    opened, fs0 >>

\* mutant: the file is written without a with block and never closed
CloseLeavesOpen ==
    /\ pc = "close"
    /\ fs' = [fs EXCEPT ![filename] = File(f_buffer)]
    /\ f_buffer' = << >>
    /\ pc' = "print"
    /\ UNCHANGED << sizes, idx, size, filename, locals, open_files, out, exc, opened, fs0 >>

\* end of the with block: f.close() writes the buffer to the file and closes it
Close ==
    /\ pc = "close"
    /\ fs' = [fs EXCEPT ![filename] = File(f_buffer)]
    /\ f_buffer' = << >>
    /\ open_files' = open_files \ {filename}
    /\ pc' = "print"
    /\ UNCHANGED << sizes, idx, size, filename, locals, out, exc, opened, fs0 >>

\* end of the with block: f.close() raises OSError (disk full, I/O error),
\* from the flush with only part of the bytes on disk or from closing the
\* descriptor after all of them; the file is closed all the same and the
\* error propagates
CloseFail ==
    /\ pc = "close"
    /\ \E n \in 0..Len(f_buffer) :
          fs' = [fs EXCEPT ![filename] = File(SubSeq(f_buffer, 1, n))]
    /\ f_buffer' = << >>
    /\ open_files' = open_files \ {filename}
    /\ exc' = "OSError"
    /\ pc' = "raised"
    /\ UNCHANGED << sizes, idx, size, filename, locals, out, opened, fs0 >>

\* line 45, then the return to the driver's loop
Report ==
    /\ pc = "print"
    /\ out' = Append(out, CreatedLine(filename, size))
    /\ pc' = "for"
    /\ UNCHANGED << sizes, idx, size, filename, locals, fs, open_files, f_buffer, exc,
                    opened, fs0 >>

FileSteps == Open \/ OpenFail \/ Write \/ Close \/ CloseFail \/ Report

\* the script
Next == Call \/ Encode \/ FileSteps \/ Summary

Spec == Init /\ [][Next]_vars

\* one call of create_png, every statement of the encoder a step
NextEnc ==
    \/ Call \/ RowStart \/ PixelAppend \/ RowEnd \/ Compress
    \/ Ihdr \/ IhdrError \/ Idat \/ Iend
    \/ FileSteps \/ Summary

SpecEnc == InitEnc /\ [][NextEnc]_vars

(***************************************************************************)
(* Decoding a whole file: the signature, the chunks with their checksums,  *)
(* the header fields, the decompressed and unfiltered raster.              *)
(***************************************************************************)
ChunkOk(ch) == ch.length >= 0 /\ Len(ch.data) = ch.length /\ ch.crc = Crc32(ch.tag \o ch.data)

DecodePng(s) ==
    LET chunks == ReadChunks(s, 9)
        hd == chunks[1].data
        width == UnpackU32(SubSeq(hd, 1, 4))
        height == UnpackU32(SubSeq(hd, 5, 8))
        z == ZlibDecompress(chunks[2].data)
        u == Unfilter(z.data, width)
        bad == [ok |-> FALSE, width |-> 0, height |-> 0, pixels |-> << >>]
    IN  IF Len(s) < 8 \/ SubSeq(s, 1, 8) # PngMagic THEN bad
        ELSE IF Len(chunks) # 3 \/ \E i \in 1..Len(chunks) : ~ChunkOk(chunks[i]) THEN bad
        ELSE IF chunks[1].tag # IHDR \/ chunks[2].tag # IDAT \/ chunks[3].tag # IEND THEN bad
        ELSE IF chunks[1].length # 13 \/ chunks[3].length # 0 THEN bad
        ELSE IF hd[1] >= 128 \/ hd[5] >= 128 \/ SubSeq(hd, 9, 13) # << 8, 6, 0, 0, 0 >> THEN bad
        ELSE IF ~z.ok \/ ~u.ok \/ Len(u.data) # height THEN bad
        ELSE [ok |-> TRUE, width |-> width, height |-> height, pixels |-> u.data]

(***************************************************************************)
(* State predicates used by the claims.                                    *)
(***************************************************************************)
\* the current file was written and closed without error: all of its bytes
\* are on disk
Written == idx >= 1 /\ pc \in {"print", "for", "done"}

\* the raster of the current call is complete
RasterBuilt ==
    idx >= 1 /\ ((pc = "row" /\ y >= size)
                 \/ pc \in {"ihdr", "idat", "iend", "open", "write", "close", "print"})

CurrentFile == fs[filename].data

\* the pairs of section 4.3 and the lines the script prints for them
ExpectedPairs ==
    << << 32, "32x32.png" >>, << 128, "128x128.png" >>,
       << 256, "128x128@2x.png" >>, << 512, "icon.png" >> >>
ExpectedNames == << "32x32.png", "128x128.png", "128x128@2x.png", "icon.png" >>
ExpectedOutput ==
    << "Created 32x32.png (32x32)", "Created 128x128.png (128x128)",
       "Created 128x128@2x.png (256x256)", "Created icon.png (512x512)",
       "Icons created successfully!" >>

Range(q) == { q[i] : i \in 1..Len(q) }

\* what the driver's file of an n x n image holds when written in full
DriverImage(n) == Signature \o IhdrChunk(n, n) \o Opaque("idat", n) \o IendChunk

\* the width and height fields of the header chunk of a driver file
HeaderWidth(data) == UnpackU32(SubSeq(data, 17, 20))
HeaderHeight(data) == UnpackU32(SubSeq(data, 21, 24))

(***************************************************************************)
(* Claims.                                                                 *)
(***************************************************************************)

\* C1: a run of the driver in which no write fails ends with exactly the four
\* files 32x32.png, 128x128.png, 128x128@2x.png and icon.png written, of
\* encoded sizes 32, 128, 256 and 512; each name is opened exactly once, in
\* list order, and no other path is created or changed.
C1_FourFilesWritten ==
    pc = "done" =>
        /\ opened = ExpectedNames
        /\ \A i \in 1..4 :
              LET file == fs[ExpectedPairs[i][2]] IN
              /\ file.exists
              /\ Len(file.data) = Len(DriverImage(ExpectedPairs[i][1]))
              /\ HeaderWidth(file.data) = ExpectedPairs[i][1]
              /\ HeaderHeight(file.data) = ExpectedPairs[i][1]
              /\ file.data = DriverImage(ExpectedPairs[i][1])
        /\ \A p \in Paths \ Range(ExpectedNames) : fs[p] = fs0[p]
        /\ open_files = {}

C1_Witness ==
    /\ pc = "done"
    /\ fs0["icon.png"] = Stale
    /\ fs0["32x32.png"] = NoFile
    /\ HeaderWidth(fs["128x128@2x.png"].data) = 256

\* C2: when opening or writing the file of the k-th pair fails (the bytes
\* are written when the with block closes the file) the run stops there: no
\* step follows (no retry), the files of pairs 1..k-1 stay as written, no file
\* of pairs k+1..4 was opened or touched, and the summary line is not printed.
C2_WriteFailureAborts ==
    /\ [](pc = "raised" =>
            /\ exc = "OSError"
            /\ opened = [j \in 1..idx |-> sizes[j][2]]
            /\ \A j \in 1..(idx - 1) : fs[sizes[j][2]] = File(DriverImage(sizes[j][1]))
            /\ \A j \in (idx + 1)..Len(sizes) :
                  /\ sizes[j][2] \notin Range(opened)
                  /\ fs[sizes[j][2]] = fs0[sizes[j][2]]
            /\ SummaryLine \notin Range(out)
            /\ Len(out) = idx - 1
            /\ open_files = {}
            /\ f_buffer = << >>)
    /\ [][/\ pc # "raised"
          /\ \A j \in 1..(idx - 1) : fs'[sizes[j][2]] = fs[sizes[j][2]]]_vars

C2_Witness ==
    /\ pc = "raised"
    /\ idx = 3
    /\ fs[filename].exists
    /\ Len(fs[filename].data) = 20
    /\ fs0[filename] = Stale
    /\ fs["icon.png"] = fs0["icon.png"]

\* C3 (as claimed): create_png with size <= 0 ends in an error and creates or
\* truncates no file.
C3_NonPositiveSizeFails ==
    (idx >= 1 /\ size <= 0) =>
        /\ fs = fs0
        /\ pc \notin {"print", "for", "done"}

\* C4: the encoding statements (raster, compression, chunks) change neither
\* the file system nor the printed output; only the file writing steps (the
\* open and the close that writes the buffered bytes) change a file.
C4_EncodeHasNoSideEffects ==
    [][/\ pc \in {"row", "pixel", "ihdr", "idat", "iend"}
          => /\ fs' = fs
             /\ out' = out
             /\ open_files' = open_files
             /\ f_buffer' = f_buffer
             /\ opened' = opened
       /\ fs' # fs => pc \in {"open", "close"}]_vars

C4_Witness ==
    /\ pc = "open"
    /\ size = 2
    /\ iend = IendChunk
    /\ Len(idat) = 29
    /\ fs = fs0
    /\ out = << >>
    /\ opened = << >>

\* C5: for every size S >= 1 the raster buffer has length S * (1 + 4 * S) and
\* is S scanlines, each a zero filter byte followed by S copies of the four
\* colour bytes (while it is built, the rows so far have that layout).
C5_RasterLayout ==
    /\ (idx >= 1 /\ size >= 1 /\ pc \in {"row", "pixel"}) =>
          Len(raw_data) = y * (1 + 4 * size) + (IF pc = "pixel" THEN 1 + 4 * x ELSE 0)
    /\ (RasterBuilt /\ size >= 1) =>
          /\ Len(raw_data) = size * (1 + 4 * size)
          /\ \A r \in 0..(size - 1) :
                /\ raw_data[r * (1 + 4 * size) + 1] = 0
                /\ \A c \in 0..(size - 1) :
                      SubSeq(raw_data, r * (1 + 4 * size) + 2 + 4 * c,
                                       r * (1 + 4 * size) + 5 + 4 * c) = << 124, 58, 237, 255 >>

C5_Witness ==
    /\ pc = "ihdr"
    /\ size = 1
    /\ raw_data = << 0, 124, 58, 237, 255 >>

\* C6: for every size S >= 1 the header chunk of the written file has a
\* 13-byte payload: width S and height S (big-endian), then 8, 6, 0, 0, 0.
C6_HeaderFields ==
    (Written /\ size >= 1) =>
        LET ch == ReadChunks(CurrentFile, 9)[1] IN
        /\ ch.length = 13
        /\ Len(ch.data) = 13
        /\ ch.tag = << 73, 72, 68, 82 >>
        /\ UnpackU32(SubSeq(ch.data, 1, 4)) = size
        /\ UnpackU32(SubSeq(ch.data, 5, 8)) = size
        /\ SubSeq(ch.data, 9, 13) = << 8, 6, 0, 0, 0 >>

C6_Witness ==
    /\ pc = "print"
    /\ size = 2
    /\ SubSeq(CurrentFile, 9, 29) = << 0, 0, 0, 13, 73, 72, 68, 82, 0, 0, 0, 2, 0, 0, 0, 2, 8, 6, 0, 0, 0 >>

\* C7: for every size S >= 1, decoding the written file (chunks, zlib
\* decompression, filter type none) gives an S x S raster whose every pixel is
\* the colour (124, 58, 237, 255).
C7_RoundTrip ==
    (Written /\ size >= 1) =>
        LET img == DecodePng(CurrentFile) IN
        /\ img.ok
        /\ img.width = size
        /\ img.height = size
        /\ Len(img.pixels) = size
        /\ \A r \in 1..size :
              /\ Len(img.pixels[r]) = size
              /\ \A c \in 1..size : img.pixels[r][c] = << 124, 58, 237, 255 >>

C7_Witness ==
    /\ pc = "for"
    /\ idx = 1
    /\ size = MaxSize
    /\ DecodePng(CurrentFile).ok
    /\ DecodePng(CurrentFile).pixels[MaxSize][MaxSize] = << 124, 58, 237, 255 >>

\* C8: every written file is the 8-byte signature followed by exactly three
\* chunks, header, data, end, whose length fields are 13, the length of the
\* compressed stream and 0, and whose stored checksum is the CRC-32 of the
\* tag followed by the payload.
C8_ChunkStructure ==
    Written =>
        LET chunks == ReadChunks(CurrentFile, 9) IN
        /\ SubSeq(CurrentFile, 1, 8) = << 137, 80, 78, 71, 13, 10, 26, 10 >>
        /\ Len(chunks) = 3
        /\ \A i \in 1..3 :
              /\ chunks[i].length >= 0
              /\ Len(chunks[i].data) = chunks[i].length
              /\ chunks[i].crc = Crc32(chunks[i].tag \o chunks[i].data)
        /\ chunks[1].tag = << 73, 72, 68, 82 >>
        /\ chunks[2].tag = << 73, 68, 65, 84 >>
        /\ chunks[3].tag = << 73, 69, 78, 68 >>
        /\ chunks[1].length = 13
        /\ chunks[2].length = Len(compressed)
        /\ chunks[2].data = compressed
        /\ chunks[3].length = 0

C8_Witness ==
    /\ pc = "print"
    /\ size = 3
    /\ Len(ReadChunks(CurrentFile, 9)) = 3
    /\ ReadChunks(CurrentFile, 9)[2].length = 17

\* C9: a successful run prints one completion line per file, naming file and
\* size, in list order, then the summary line; the summary line is printed
\* once and is the last line.
C9_OutputLines ==
    /\ pc = "done" => out = ExpectedOutput
    /\ \A i \in 1..Len(out) : out[i] = SummaryLine => (i = Len(out) /\ pc = "done")
    /\ \A i \in 1..Len(out) : i <= 4 => out[i] = ExpectedOutput[i]
    /\ Len(out) <= 5

C9_Witness ==
    /\ pc = "done"
    /\ Len(out) = 5
    /\ out[5] = "Icons created successfully!"
    /\ out[3] = "Created 128x128@2x.png (256x256)"

\* C10: a file's completion line is printed only after all its bytes are
\* written and it is closed, and before the next file is opened; at most one
\* file is open at a time, and there are never more completion lines than
\* fully written files.
C10_Ordering ==
    LET created == { i \in 1..Len(out) : out[i] # SummaryLine }
        complete == { j \in 1..Len(opened) :
                        /\ opened[j] \notin open_files
                        /\ fs[opened[j]] = File(DriverImage(sizes[j][1])) }
    IN  /\ Cardinality(open_files) <= 1
        /\ Cardinality(created) <= Cardinality(complete)
        /\ created \subseteq complete
        /\ Len(opened) <= Cardinality(created) + 1
        /\ \A i \in created : out[i] = CreatedLine(opened[i], sizes[i][1])

C10_Witness ==
    /\ pc = "close"
    /\ idx = 2
    /\ open_files = {"128x128.png"}
    /\ f_buffer = DriverImage(128)
    /\ fs["128x128.png"] = File(<< >>)
    /\ out = << "Created 32x32.png (32x32)" >>
    /\ fs["32x32.png"] = File(DriverImage(32))

====
